---------------------------- MODULE Spec2Model ----------------------------
(***************************************************************************)
(* Eurovision vote preprocessing: the two Streamlit scripts                *)
(* eurovision_preprocessor.py (variant "A") and                            *)
(* eurovision_preprocessor2.py (variant "B").                              *)
(*                                                                         *)
(* A data frame is a sequence of records (row order is the frame's row     *)
(* order).  A number is a pair <<n, d>> standing for n/d in lowest terms;  *)
(* <<0, 0>> is NaN (pandas' missing value) and <<1, 0>> is +Infinity, as   *)
(* float division produces them.  Finite values are exact rationals where  *)
(* the scripts use binary floats.  Text that the scripts inspect (the      *)
(* round) is a sequence of one-character strings.                          *)
(***************************************************************************)
EXTENDS Integers, Sequences, FiniteSets

VARIABLES variant, contestants_df, votes_df, cultural_df,
          pc, top3_only, final_only, min_participations,
          selected_countries, weighting_method,
          merged_df, final_df, country_counts_df,
          eurovision_votes, edge_list_csv, node_list_csv,
          runs, loaded_votes, prev

vars == <<variant, contestants_df, votes_df, cultural_df,
          pc, top3_only, final_only, min_participations,
          selected_countries, weighting_method,
          merged_df, final_df, country_counts_df,
          eurovision_votes, edge_list_csv, node_list_csv,
          runs, loaded_votes, prev>>

---------------------------------------------------------------------------
(* Bounds of the explored inputs.                                          *)
MaxVotes == 3
MaxContestants == 2
MaxMin == 2
MaxRuns == 2

(* Program constants.                                                      *)
Top3Threshold == 8
Variants == {"A", "B"}
WeightingMethods == {"No weights", "Divide by participation count",
                     "Divide by total points", "Divide by both"}

---------------------------------------------------------------------------
(* Numbers.                                                                *)
RECURSIVE GCD(_, _)
GCD(a, b) == IF b = 0 THEN a ELSE GCD(b, a % b)

Norm(n, d) == IF d = 0 THEN (IF n = 0 THEN <<0, 0>> ELSE <<1, 0>>)
              ELSE LET g == GCD(n, d) IN <<n \div g, d \div g>>
Num(n) == <<n, 1>>
NaN == <<0, 0>>
Inf == <<1, 0>>
IsNaN(x) == x = NaN
IsFinite(x) == x[2] # 0

RDiv(a, b) == Norm(a[1] * b[2], a[2] * b[1])
RMul(a, b) == Norm(a[1] * b[1], a[2] * b[2])
RAdd(a, b) == IF a = Inf /\ b = Inf THEN Inf
              ELSE Norm(a[1] * b[2] + b[1] * a[2], a[2] * b[2])

---------------------------------------------------------------------------
(* Text.                                                                   *)
UpperCase == <<"A","B","C","D","E","F","G","H","I","J","K","L","M",
               "N","O","P","Q","R","S","T","U","V","W","X","Y","Z">>
LowerCase == <<"a","b","c","d","e","f","g","h","i","j","k","l","m",
               "n","o","p","q","r","s","t","u","v","w","x","y","z">>
LowerChar(c) == IF \E i \in 1..26 : UpperCase[i] = c
                THEN LowerCase[CHOOSE i \in 1..26 : UpperCase[i] = c]
                ELSE c
Lower(s) == [i \in 1..Len(s) |-> LowerChar(s[i])]
Contains(sub, s) ==
    \E i \in 1..(Len(s) - Len(sub) + 1) : SubSeq(s, i, i + Len(sub) - 1) = sub

FINAL == <<"f","i","n","a","l">>
SEMI_FINAL == <<"s","e","m","i","-","f","i","n","a","l">>
NormalizeRound(x) == IF Contains(FINAL, Lower(x)) THEN FINAL ELSE SEMI_FINAL

(* The missing value of a text column.                                     *)
NoName == "<NaN>"

(* Sort order of the country ids and names that occur (groupby sorts its   *)
(* keys).                                                                  *)
IdOrder == <<"DE", "ES", "FR">>
NameOrder == <<"France", "Germany", "Spain", "West Germany", NoName>>

---------------------------------------------------------------------------
(* Frame helpers.                                                          *)
RECURSIVE Concat(_)
Concat(ss) == IF ss = <<>> THEN <<>> ELSE Head(ss) \o Concat(Tail(ss))

Range(s) == {s[i] : i \in 1..Len(s)}

(* Mutant: the duplicates are kept.                                         *)
KeepDuplicates(s) == s

(* DataFrame.drop_duplicates(): the first occurrence of each row, in order *)
RECURSIVE DropDuplicates(_)
DropDuplicates(s) ==
    IF s = <<>> THEN <<>>
    ELSE LET r == DropDuplicates(SubSeq(s, 1, Len(s) - 1))
             x == s[Len(s)]
         IN IF x \in Range(r) THEN r ELSE Append(r, x)

---------------------------------------------------------------------------
(* preprocess_data                                                         *)

(* votes_df['round'] = votes_df['round'].apply(...): rewrites the round    *)
(* column of the frame it was handed.                                      *)
NormalizeRounds(votes) ==
    [i \in 1..Len(votes) |-> [votes[i] EXCEPT !.round = NormalizeRound(@)]]

(* Variant B's "TOP 3 ONLY" and "ONLY FINAL" row filters; variant A has    *)
(* neither (its callers pass FALSE, FALSE).                                *)
PreFilter(votes, top3, fin) ==
    SelectSeq(votes, LAMBDA v : /\ (top3 => v.total_points >= Top3Threshold)
                                /\ (fin => v.round = FINAL))

MergedRow(v, y, sf, fi) ==
    [year |-> v.year, round |-> v.round,
     from_country_id |-> v.from_country_id, to_country_id |-> v.to_country_id,
     to_country_x |-> v.to_country, total_points |-> v.total_points,
     to_country_y |-> y, points_sf |-> sf, points_final |-> fi,
     total_points_overall |-> IF v.round = FINAL THEN fi ELSE sf]

(* pd.merge(votes_df, contestants_df, how='left', on year, to_country_id): *)
(* every vote row, in order, once per matching contestant row, or once     *)
(* with missing values when none matches.                                  *)
Merge(votes, contestants) ==
    Concat([i \in 1..Len(votes) |->
        LET v == votes[i]
            m == SelectSeq(contestants,
                     LAMBDA c : c.year = v.year /\ c.to_country_id = v.to_country_id)
        IN IF m = <<>> THEN <<MergedRow(v, NoName, NaN, NaN)>>
           ELSE [j \in 1..Len(m) |->
                    MergedRow(v, m[j].to_country, m[j].points_sf, m[j].points_final)]])

(* Variant A: groupby(['to_country_x', 'to_country_y']).size() over the    *)
(* distinct (year, round, x, y) rows; a group whose key is missing is      *)
(* dropped, the groups come out sorted by key.                             *)
UniqueYearsA(merged) ==
    DropDuplicates([i \in 1..Len(merged) |->
        [year |-> merged[i].year, round |-> merged[i].round,
         to_country_x |-> merged[i].to_country_x,
         to_country_y |-> merged[i].to_country_y]])

CountryCountsA(merged) ==
    LET u == UniqueYearsA(merged)
        names == SelectSeq(NameOrder, LAMBDA n : n # NoName)
        Size(x, y) == Cardinality({i \in 1..Len(u) :
                          u[i].to_country_x = x /\ u[i].to_country_y = y})
    IN Concat([a \in 1..Len(IdOrder) |->
         Concat([b \in 1..Len(names) |->
            IF Size(IdOrder[a], names[b]) > 0
            THEN <<[country_id |-> IdOrder[a], country_name |-> names[b],
                    count |-> Size(IdOrder[a], names[b])]>>
            ELSE <<>>])])

(* Variant B: groupby('to_country_id').agg(first name, size) over the      *)
(* distinct (year, round, x, y, id) rows; 'first' is the first name that   *)
(* is not missing.                                                         *)
UniqueYearsB(merged) ==
    DropDuplicates([i \in 1..Len(merged) |->
        [year |-> merged[i].year, round |-> merged[i].round,
         to_country_x |-> merged[i].to_country_x,
         to_country_y |-> merged[i].to_country_y,
         to_country_id |-> merged[i].to_country_id]])

FirstName(u, id) ==
    LET named == SelectSeq(u, LAMBDA r : r.to_country_id = id /\ r.to_country_y # NoName)
    IN IF named = <<>> THEN NoName ELSE named[1].to_country_y

GroupById(merged) ==
    LET u == UniqueYearsB(merged)
        Size(id) == Cardinality({i \in 1..Len(u) : u[i].to_country_id = id})
    IN Concat([a \in 1..Len(IdOrder) |->
            IF Size(IdOrder[a]) > 0
            THEN <<[country_id |-> IdOrder[a],
                    country_name |-> FirstName(u, IdOrder[a]),
                    count |-> Size(IdOrder[a])]>>
            ELSE <<>>])

(* pd.merge(country_counts_df, cultural_df, how='left', on='country_id')   *)
MergeCultural(cc, cultural) ==
    Concat([i \in 1..Len(cc) |->
        LET m == SelectSeq(cultural, LAMBDA h : h.country_id = cc[i].country_id)
            Row(p) == [country_id |-> cc[i].country_id,
                       country_name |-> cc[i].country_name,
                       count |-> cc[i].count, pdi |-> p]
        IN IF m = <<>> THEN <<Row(NaN)>>
           ELSE [j \in 1..Len(m) |-> Row(m[j].pdi)]])

CountryCountsB(merged, cultural) == MergeCultural(GroupById(merged), cultural)

CountryCounts(v, merged, cultural) ==
    IF v = "A" THEN CountryCountsA(merged) ELSE CountryCountsB(merged, cultural)

(* set_index('country_id')['count'].to_dict() and Series.map: the count of *)
(* the last row with that id, missing when there is none.                  *)
ParticipationMap(cc, id) ==
    LET I == {i \in 1..Len(cc) : cc[i].country_id = id}
    IN IF I = {} THEN NaN
       ELSE Num(cc[CHOOSE i \in I : \A j \in I : j <= i].count)

FinalRow(v, m, cc) ==
    IF v = "A"
    THEN [year |-> m.year, round |-> m.round,
          from_country |-> m.from_country_id, to_country |-> m.to_country_id,
          to_country_name |-> m.to_country_y,
          points_given |-> m.total_points, total_points |-> m.total_points_overall,
          to_country_participation |-> ParticipationMap(cc, m.to_country_id)]
    ELSE [year |-> m.year, round |-> m.round,
          from_country |-> m.from_country_id, to_country |-> m.to_country_id,
          points_given |-> m.total_points, total_points |-> m.total_points_overall,
          to_country_participation |-> ParticipationMap(cc, m.to_country_id)]

FinalFrame(v, merged, cc) ==
    [i \in 1..Len(merged) |-> FinalRow(v, merged[i], cc)]

---------------------------------------------------------------------------
(* calculate_weighted_votes                                                *)
(* Mutant: the participation weighting divides by the wrong column.        *)
WeightedPointsWrongColumn(r, method) ==
    CASE method = "No weights" -> Num(r.points_given)
      [] method = "Divide by participation count" ->
            RDiv(Num(r.points_given), r.total_points)
      [] method = "Divide by total points" ->
            RDiv(Num(r.points_given), r.total_points)
      [] method = "Divide by both" ->
            RDiv(Num(r.points_given), RMul(r.total_points, r.to_country_participation))

WeightedPoints(r, method) ==
    CASE method = "No weights" -> Num(r.points_given)
      [] method = "Divide by participation count" ->
            RDiv(Num(r.points_given), r.to_country_participation)
      [] method = "Divide by total points" ->
            RDiv(Num(r.points_given), r.total_points)
      [] method = "Divide by both" ->
            RDiv(Num(r.points_given), RMul(r.total_points, r.to_country_participation))

WithWeighted(r, w) ==
    [f \in DOMAIN r \cup {"weighted_points"} |->
        IF f = "weighted_points" THEN w ELSE r[f]]

calculate_weighted_votes(df, method) ==
    [i \in 1..Len(df) |-> WithWeighted(df[i], WeightedPoints(df[i], method))]

---------------------------------------------------------------------------
(* filter_countries                                                        *)

(* dict(zip(names, ids)): the id of the last row with that name.           *)
CountryMapping(cc, name) ==
    LET I == {i \in 1..Len(cc) : cc[i].country_name = name}
    IN cc[CHOOSE i \in I : \A j \in I : j <= i].country_id

SelectedCountryIds(cc, selected) ==
    {CountryMapping(cc, n) :
        n \in {s \in selected : \E i \in 1..Len(cc) : cc[i].country_name = s}}

(* Mutant: only the destination of a vote is tested.                       *)
filter_countries_to_only(df, cc, selected) ==
    LET ids == SelectedCountryIds(cc, selected)
    IN SelectSeq(df, LAMBDA r : r.to_country \in ids)

filter_countries(df, cc, selected) ==
    LET ids == SelectedCountryIds(cc, selected)
    IN SelectSeq(df, LAMBDA r : r.to_country \in ids /\ r.from_country \in ids)

---------------------------------------------------------------------------
(* The steps of main()                                                     *)
NodeIds(cc) == {cc[i].country_id : i \in 1..Len(cc)}

(* Mutant: the comparison is turned around.                                *)
MaxParticipationNodes(cc, m) == SelectSeq(cc, LAMBDA r : r.count <= m)

MinParticipationNodes(cc, m) == SelectSeq(cc, LAMBDA r : r.count >= m)

MinParticipationVotes(df, cc) ==
    LET kept == SelectSeq(df, LAMBDA r : r.to_country \in NodeIds(cc))
    IN SelectSeq(kept, LAMBDA r : r.from_country \in NodeIds(cc))

AllCountries(cc) == {cc[i].country_name : i \in 1..Len(cc)}

SelectedNodes(cc, selected) == SelectSeq(cc, LAMBDA r : r.country_name \in selected)

NoSelfVotes(df) == SelectSeq(df, LAMBDA r : r.from_country # r.to_country)

(* Series.sum() of a group: missing values are skipped, an empty sum is 0. *)
RECURSIVE SumSkipNa(_)
SumSkipNa(ws) ==
    IF ws = <<>> THEN Num(0)
    ELSE IF IsNaN(Head(ws)) THEN SumSkipNa(Tail(ws))
    ELSE RAdd(Head(ws), SumSkipNa(Tail(ws)))

(* groupby(['from_country', 'to_country'], as_index=False)                 *)
(*     ['weighted_points'].sum(): one row per pair that occurs, sorted.    *)
GroupSum(df) ==
    Concat([a \in 1..Len(IdOrder) |->
      Concat([b \in 1..Len(IdOrder) |->
        LET g == SelectSeq(df, LAMBDA r : r.from_country = IdOrder[a]
                                          /\ r.to_country = IdOrder[b])
        IN IF g = <<>> THEN <<>>
           ELSE <<[from_country |-> IdOrder[a], to_country |-> IdOrder[b],
                   weighted_points |->
                       SumSkipNa([i \in 1..Len(g) |-> g[i].weighted_points])]>>])])

(* Variant B only: eurovision_votes[weighted_points != 0]                  *)
DropZero(edges) == SelectSeq(edges, LAMBDA e : e.weighted_points # Num(0))

Aggregated(v, df) ==
    IF v = "A" THEN GroupSum(NoSelfVotes(df)) ELSE DropZero(GroupSum(NoSelfVotes(df)))

(* final_df[['from_country', 'to_country', 'weighted_points']]             *)
EdgeColumns(df) ==
    [i \in 1..Len(df) |-> [from_country |-> df[i].from_country,
                           to_country |-> df[i].to_country,
                           weighted_points |-> df[i].weighted_points]]

(* country_counts_df[['country_id', 'country_name', 'count']]              *)
NodeColumns(cc) ==
    [i \in 1..Len(cc) |-> [country_id |-> cc[i].country_id,
                           country_name |-> cc[i].country_name,
                           count |-> cc[i].count]]

---------------------------------------------------------------------------
(* Input record sets.                                                      *)
SeqsUpTo(S, n) == UNION {[1..k -> S] : k \in 0..n}

(* The rows of a file at the positions in keep, in file order, and the     *)
(* files of at most n rows that are a part of a file.                      *)
Part(frame, keep) ==
    LET F[i \in 0..Len(frame)] ==
            IF i = 0 THEN <<>>
            ELSE IF i \in keep THEN Append(F[i - 1], frame[i]) ELSE F[i - 1]
    IN F[Len(frame)]
PartsUpTo(frame, n) ==
    {Part(frame, keep) :
        keep \in {k \in SUBSET (1..Len(frame)) : Cardinality(k) <= n}}

(* A votes.csv row; its to_country column repeats the country code.        *)
Vote(y, r, f, t, p) ==
    [year |-> y, round |-> r, from_country_id |-> f, to_country_id |-> t,
     to_country |-> t, total_points |-> p]
Contestant(y, t, n, sf, fi) ==
    [year |-> y, to_country_id |-> t, to_country |-> n,
     points_sf |-> sf, points_final |-> fi]
Cultural(c, p) == [country_id |-> c, pdi |-> p]

HEAT == <<"s","f","1">>

(* Two contestants over two contests: a vote for DE in each contest, the   *)
(* second from ES, which no vote names as destination, and a low mark for  *)
(* FR in a heat whose round text has no "final" in it.                     *)
VoteRows ==
    {Vote(2020, FINAL, "FR", "DE", 10), Vote(2021, FINAL, "ES", "DE", 10),
     Vote(2020, HEAT, "DE", "FR", 5)}
(* DE on file under two names.                                             *)
ContestantRows ==
    {Contestant(2020, "DE", "Germany", Num(20), Num(20)),
     Contestant(2021, "DE", "West Germany", Num(20), Num(20)),
     Contestant(2020, "FR", "France", Num(20), Num(20))}
CulturalFrame == <<Cultural("DE", Num(35))>>

Start(v, votes, contestants) ==
    /\ variant = v
    /\ votes_df = votes
    /\ loaded_votes = votes
    /\ contestants_df = contestants
    /\ cultural_df = (IF v = "A" THEN <<>> ELSE CulturalFrame)
    /\ pc = "start"
    /\ top3_only = FALSE
    /\ final_only = FALSE
    /\ min_participations = 1
    /\ selected_countries = {}
    /\ weighting_method = "No weights"
    /\ merged_df = <<>>
    /\ final_df = <<>>
    /\ country_counts_df = <<>>
    /\ eurovision_votes = <<>>
    /\ edge_list_csv = <<>>
    /\ node_list_csv = <<>>
    /\ runs = 1
    /\ prev = <<>>

Init ==
    \E v \in Variants, votes \in SeqsUpTo(VoteRows, MaxVotes),
       contestants \in SeqsUpTo(ContestantRows, MaxContestants) :
        Start(v, votes, contestants)

---------------------------------------------------------------------------
(* One run of main(), step by step.  In a first run the widget values are  *)
(* the user's; a later run is handed the values of the run before.         *)
inputs == <<variant, contestants_df, cultural_df, loaded_votes>>
session == <<runs, prev>>

MergedOf(votes, top3, fin) ==
    Merge(PreFilter(NormalizeRounds(votes), top3, fin), contestants_df)

(* preprocess_data(...), lines 12-31 (A) and 16-48 (B).                    *)
Preprocess(top3, fin) ==
    /\ pc = "start"
    /\ variant = "A" => (~top3 /\ ~fin)
    /\ runs > 1 => (top3 = top3_only /\ fin = final_only)
    /\ LET merged == MergedOf(votes_df, top3, fin)
           cc == CountryCounts(variant, merged, cultural_df)
       IN /\ merged_df' = merged
          /\ country_counts_df' = cc
          /\ final_df' = FinalFrame(variant, merged, cc)
    /\ votes_df' = NormalizeRounds(votes_df)
    /\ top3_only' = top3
    /\ final_only' = fin
    /\ pc' = "preprocessed"
    /\ UNCHANGED <<inputs, session, min_participations, selected_countries,
                   weighting_method, eurovision_votes, edge_list_csv, node_list_csv>>

(* merged_df.apply(..., axis=1) of a frame without rows returns a frame,   *)
(* not a column; pandas releases differ on whether assigning it raises.    *)
PreprocessFails(top3, fin) ==
    /\ pc = "start"
    /\ variant = "A" => (~top3 /\ ~fin)
    /\ runs > 1 => (top3 = top3_only /\ fin = final_only)
    /\ MergedOf(votes_df, top3, fin) = <<>>
    /\ votes_df' = NormalizeRounds(votes_df)
    /\ top3_only' = top3
    /\ final_only' = fin
    /\ pc' = "error"
    /\ UNCHANGED <<inputs, session, min_participations, selected_countries,
                   weighting_method, merged_df, final_df, country_counts_df,
                   eurovision_votes, edge_list_csv, node_list_csv>>

(* "Filter by minimum participation count", lines 73-75 (A), 93-95 (B).    *)
FilterMinParticipations(m) ==
    /\ pc = "preprocessed"
    /\ runs > 1 => m = min_participations
    /\ LET cc == MinParticipationNodes(country_counts_df, m)
       IN /\ country_counts_df' = cc
          /\ final_df' = MinParticipationVotes(final_df, cc)
    /\ min_participations' = m
    /\ pc' = "thresholded"
    /\ UNCHANGED <<inputs, session, votes_df, top3_only, final_only,
                   selected_countries, weighting_method, merged_df,
                   eurovision_votes, edge_list_csv, node_list_csv>>

(* The multiselect and filter_countries, lines 78-85 (A), 99-107 (B).      *)
SelectCountries(selected) ==
    /\ pc = "thresholded"
    /\ IF runs > 1 THEN selected = selected_countries
       ELSE selected \subseteq AllCountries(country_counts_df)
    /\ final_df' = filter_countries(final_df, country_counts_df, selected)
    /\ country_counts_df' = SelectedNodes(country_counts_df, selected)
    /\ selected_countries' = selected
    /\ pc' = "selected"
    /\ UNCHANGED <<inputs, session, votes_df, top3_only, final_only,
                   min_participations, weighting_method, merged_df,
                   eurovision_votes, edge_list_csv, node_list_csv>>

(* Weighting, the displayed edge list and, in variant B, the data of the   *)
(* two download buttons: lines 88-95 (A), 110-126 (B).                     *)
WeighAndShow(method) ==
    /\ pc = "selected"
    /\ runs > 1 => method = weighting_method
    /\ LET weighted == calculate_weighted_votes(final_df, method)
       IN /\ final_df' = weighted
          /\ eurovision_votes' = Aggregated(variant, weighted)
          /\ IF variant = "A"
             THEN UNCHANGED <<edge_list_csv, node_list_csv>>
             ELSE /\ edge_list_csv' = EdgeColumns(weighted)
                  /\ node_list_csv' = country_counts_df
    /\ weighting_method' = method
    /\ pc' = (IF variant = "A" THEN "shown" ELSE "done")
    /\ UNCHANGED <<inputs, session, votes_df, top3_only, final_only,
                   min_participations, selected_countries, merged_df,
                   country_counts_df>>

(* Variant A, the save button: edgelist.csv and nodelist.csv, lines 98-101 *)
SaveCsv ==
    /\ pc = "shown"
    /\ variant = "A"
    /\ edge_list_csv' = eurovision_votes
    /\ node_list_csv' = NodeColumns(country_counts_df)
    /\ pc' = "done"
    /\ UNCHANGED <<inputs, session, votes_df, top3_only, final_only,
                   min_participations, selected_countries, weighting_method,
                   merged_df, final_df, country_counts_df, eurovision_votes>>

Names == Range(NameOrder)

Run ==
    \/ \E top3 \in BOOLEAN, fin \in BOOLEAN : Preprocess(top3, fin)
    \/ \E top3 \in BOOLEAN, fin \in BOOLEAN : PreprocessFails(top3, fin)
    \/ \E m \in 0..MaxMin : FilterMinParticipations(m)
    \/ \E selected \in SUBSET Names : SelectCountries(selected)
    \/ \E method \in WeightingMethods : WeighAndShow(method)
    \/ SaveCsv

Next == Run

Spec == Init /\ [][Next]_vars

---------------------------------------------------------------------------
(* A second run.  What the finished run emitted, and the votes frame it    *)
(* worked on, are kept for comparison.                                     *)
Emitted(kind) ==
    [kind |-> kind, min |-> min_participations, votes |-> votes_df,
     edges |-> eurovision_votes, edge_csv |-> edge_list_csv,
     nodes |-> country_counts_df, node_csv |-> node_list_csv]

Again(kind) ==
    /\ pc = "done"
    /\ runs < MaxRuns
    /\ runs' = runs + 1
    /\ prev' = Emitted(kind)
    /\ pc' = "start"
    /\ merged_df' = <<>>
    /\ final_df' = <<>>
    /\ country_counts_df' = <<>>
    /\ eurovision_votes' = <<>>
    /\ UNCHANGED <<variant, cultural_df, loaded_votes, top3_only, final_only,
                   selected_countries, weighting_method,
                   edge_list_csv, node_list_csv>>

(* preprocess_data, the two filters, calculate_weighted_votes and the      *)
(* aggregation are called again with the frames and the configuration of   *)
(* the run before: votes_df is the frame preprocess_data has written to.   *)
RunAgain ==
    /\ Again("again")
    /\ UNCHANGED <<votes_df, contestants_df, min_participations>>

(* The user changes "Minimum number of participations" and the script runs *)
(* again; load_data() hands out a fresh copy of the cached frames.         *)
RerunScript(m) ==
    /\ Again("script")
    /\ min_participations' = m
    /\ votes_df' = loaded_votes
    /\ UNCHANGED contestants_df

NextRerun ==
    \/ Run
    \/ RunAgain
    \/ \E m \in 0..MaxMin : RerunScript(m)

(* A heat and a final of one contest with FR as destination, a vote for DE *)
(* in that contest and one in a contest no contestant is on file for; FR   *)
(* on file under its own name or under the name of DE.                     *)
RerunVotes ==
    <<Vote(2020, HEAT, "DE", "FR", 10), Vote(2020, FINAL, "DE", "FR", 10),
      Vote(2020, FINAL, "FR", "DE", 5), Vote(2021, FINAL, "FR", "DE", 5)>>
RerunContestants ==
    {<<Contestant(2020, "DE", "Germany", Num(20), Num(20)),
       Contestant(2020, "FR", n, Num(20), Num(20))>> : n \in {"France", "Germany"}}

InitRerun ==
    \E v \in Variants, votes \in PartsUpTo(RerunVotes, MaxVotes),
       contestants \in RerunContestants :
        Start(v, votes, contestants)

SpecRerun == InitRerun /\ [][NextRerun]_vars

---------------------------------------------------------------------------
(* contestants.csv is rewritten with other points_sf / points_final in one *)
(* row, the cache is cleared and the script runs again with the widgets    *)
(* untouched.                                                              *)
PointValues == {NaN, Num(40)}

ReloadPoints(i, sf, fi) ==
    /\ Again("points")
    /\ i \in 1..Len(contestants_df)
    /\ contestants_df' = [contestants_df EXCEPT ![i].points_sf = sf,
                                                ![i].points_final = fi]
    /\ votes_df' = loaded_votes
    /\ UNCHANGED min_participations

NextPoints ==
    \/ Run
    \/ \E i \in 1..MaxContestants, sf \in PointValues, fi \in PointValues :
          ReloadPoints(i, sf, fi)

PointsVotes ==
    <<Vote(2020, FINAL, "FR", "DE", 10), Vote(2020, HEAT, "DE", "FR", 5),
      Vote(2020, FINAL, "DE", "DE", 10), Vote(2020, FINAL, "DE", "FR", 10)>>
PointsContestants ==
    <<Contestant(2020, "DE", "Germany", Num(20), Num(20)),
      Contestant(2020, "FR", "France", Num(0), Num(20))>>

InitPoints ==
    \E v \in Variants, votes \in PartsUpTo(PointsVotes, MaxVotes) :
        Start(v, votes, PointsContestants)

SpecPoints == InitPoints /\ [][NextPoints]_vars

---------------------------------------------------------------------------
(* The worked example of the specification: two votes for DE in the 2021   *)
(* final, DE named Germany; any part of the votes may be on file.          *)
ExampleVotes ==
    <<Vote(2021, FINAL, "FR", "DE", 10), Vote(2021, FINAL, "ES", "DE", 5)>>
ExampleContestants == <<Contestant(2021, "DE", "Germany", NaN, Num(15))>>

InitExample ==
    \E v \in Variants, votes \in PartsUpTo(ExampleVotes, MaxVotes) :
        Start(v, votes, ExampleContestants)

SpecExample == InitExample /\ [][Next]_vars

---------------------------------------------------------------------------
(* Properties.                                                             *)
Shown == pc \in {"shown", "done"}
Counted == pc \in {"preprocessed", "thresholded", "selected", "shown", "done"}

EndpointsIn(edges, nodes) ==
    \A i \in 1..Len(edges) : /\ edges[i].from_country \in NodeIds(nodes)
                             /\ edges[i].to_country \in NodeIds(nodes)

(* C1: every edge of the displayed edge list and of the exported edge list *)
(* starts and ends at a country_id of the node list emitted with it.       *)
C1_ReferentialIntegrity ==
    /\ Shown => EndpointsIn(eurovision_votes, country_counts_df)
    /\ pc = "done" => EndpointsIn(edge_list_csv, node_list_csv)

C1_Witness ==
    /\ pc = "done"
    /\ eurovision_votes # <<>>
    /\ edge_list_csv # <<>>
    /\ min_participations > 0
    /\ Len(final_df) < Len(merged_df)

NoSelfLoop(edges) ==
    \A i \in 1..Len(edges) : edges[i].from_country # edges[i].to_country

(* C2: no edge of the displayed edge list or of the exported edge list     *)
(* goes from a country to itself.                                          *)
C2_NoSelfLoops ==
    /\ Shown => NoSelfLoop(eurovision_votes)
    /\ pc = "done" => NoSelfLoop(edge_list_csv)

SameAsBefore ==
    /\ eurovision_votes = prev.edges
    /\ edge_list_csv = prev.edge_csv
    /\ country_counts_df = prev.nodes
    /\ node_list_csv = prev.node_csv

(* C3: the pipeline run a second time on the frames and the configuration  *)
(* of the first run emits the edge and node lists of the first run.        *)
C3_Idempotent ==
    (runs > 1 /\ prev.kind = "again" /\ pc = "done") => SameAsBefore

HasEdge(edges, f, t, w) ==
    \E i \in 1..Len(edges) : edges[i] = [from_country |-> f, to_country |-> t,
                                         weighted_points |-> w]
HasNode(nodes, id, n) ==
    \E i \in 1..Len(nodes) : nodes[i].country_id = id /\ nodes[i].count = n

ExampleRun ==
    /\ Shown
    /\ loaded_votes = ExampleVotes
    /\ ~top3_only
    /\ ~final_only
    /\ min_participations = 0
    /\ selected_countries = {"Germany"}
    /\ weighting_method = "No weights"

(* C4: in the worked example (unweighted, threshold 0, nothing filtered,   *)
(* every offered country selected) the node list holds DE with count 1 and *)
(* the edge list holds (FR, DE, 10) and (ES, DE, 5).                       *)
C4_Example ==
    ExampleRun => /\ HasNode(country_counts_df, "DE", 1)
                  /\ HasEdge(eurovision_votes, "FR", "DE", Num(10))
                  /\ HasEdge(eurovision_votes, "ES", "DE", Num(5))

(* C4, amended: in the worked example the node list is the one row of DE   *)
(* with count 1 and the edge lists are empty, FR and ES being no nodes.    *)
C4_ExampleNoEdges ==
    ExampleRun => /\ NodeColumns(country_counts_df) =
                        <<[country_id |-> "DE", country_name |-> "Germany",
                           count |-> 1]>>
                  /\ eurovision_votes = <<>>
                  /\ pc = "done" => edge_list_csv = <<>>

C4_Witness == ExampleRun /\ pc = "done"

FirstSeenName(id) ==
    LET named == SelectSeq(merged_df, LAMBDA m : m.to_country_id = id
                                                 /\ m.to_country_y # NoName)
    IN IF named = <<>> THEN NoName ELSE named[1].to_country_y

(* C5: the node list has at most one row per country_id, that row carries  *)
(* the first name recorded for the id, and a vote's participation divisor  *)
(* is that row's count.                                                    *)
C5_OneNodePerCountry ==
    Counted =>
      /\ \A i, j \in 1..Len(country_counts_df) :
            country_counts_df[i].country_id = country_counts_df[j].country_id
                => i = j
      /\ \A i \in 1..Len(country_counts_df) :
            country_counts_df[i].country_name =
                FirstSeenName(country_counts_df[i].country_id)
      /\ \A k \in 1..Len(final_df), i \in 1..Len(country_counts_df) :
            country_counts_df[i].country_id = final_df[k].to_country
                => final_df[k].to_country_participation =
                       Num(country_counts_df[i].count)

(* C6: the merge yields one row per vote that passed the row filters.      *)
C6_OneRowPerVote ==
    Counted => Len(merged_df) = Len(PreFilter(votes_df, top3_only, final_only))

Contests(id) ==
    {<<v.year, v.round>> :
        v \in {w \in Range(PreFilter(votes_df, top3_only, final_only)) :
                  w.to_country_id = id}}

(* C7: a node's count is the number of distinct (year, round) pairs among  *)
(* the votes that passed the row filters and name it as destination.       *)
C7_ParticipationCount ==
    Counted => \A i \in 1..Len(country_counts_df) :
                  country_counts_df[i].count =
                      Cardinality(Contests(country_counts_df[i].country_id))

(* C8: a run on contestants that differ in points_sf / points_final only   *)
(* emits the edge and node lists of the run before.                        *)
C8_PointsNoEffect ==
    (runs > 1 /\ prev.kind = "points" /\ pc = "done") => SameAsBefore

(* C8, amended: it emits the node lists of the run before under each of    *)
(* the four weighting methods, and the edge lists of the run before when   *)
(* the votes are unweighted or divided by the participation count; the     *)
(* other two methods divide by these points.                               *)
C8_PointsNoEffectUnlessDivisor ==
    (runs > 1 /\ prev.kind = "points" /\ pc = "done") =>
        /\ country_counts_df = prev.nodes
        /\ node_list_csv = prev.node_csv
        /\ weighting_method \in {"No weights", "Divide by participation count"}
              => /\ eurovision_votes = prev.edges
                 /\ edge_list_csv = prev.edge_csv

C8_Witness ==
    /\ runs > 1
    /\ prev.kind = "points"
    /\ pc = "done"
    /\ weighting_method = "Divide by participation count"
    /\ eurovision_votes # <<>>
    /\ \E k \in 1..Len(final_df) :
          /\ final_df[k].from_country # final_df[k].to_country
          /\ final_df[k].total_points \in {NaN, Num(0)}

(* C9: with everything else fixed (the same votes after normalisation, the *)
(* same contestants and widgets), the node list of a run with a higher     *)
(* min_participations is part of, and no longer than, the node list of the *)
(* run with the lower one.                                                 *)
C9_Monotone ==
    (/\ runs > 1
     /\ prev.kind = "script"
     /\ prev.min <= min_participations
     /\ prev.votes = votes_df) =>
      /\ pc \in {"selected", "shown", "done"} =>
            /\ Len(country_counts_df) <= Len(prev.nodes)
            /\ Range(country_counts_df) \subseteq Range(prev.nodes)
      /\ pc = "done" =>
            /\ Len(node_list_csv) <= Len(prev.node_csv)
            /\ Range(node_list_csv) \subseteq Range(prev.node_csv)

C9_Witness ==
    /\ runs > 1
    /\ prev.kind = "script"
    /\ prev.min < min_participations
    /\ prev.votes = votes_df
    /\ pc = "done"
    /\ country_counts_df # <<>>
    /\ Len(country_counts_df) < Len(prev.nodes)

Divisor(r) ==
    CASE weighting_method = "Divide by participation count" ->
            r.to_country_participation
      [] weighting_method = "Divide by total points" -> r.total_points
      [] weighting_method = "Divide by both" ->
            RMul(r.total_points, r.to_country_participation)

(* C10: no run that divides emits its lists when the divisor of a          *)
(* surviving vote is zero or missing.                                      *)
C10_NoDivisionByZero ==
    (Shown /\ weighting_method # "No weights") =>
        \A k \in 1..Len(final_df) :
            IsFinite(Divisor(final_df[k])) /\ Divisor(final_df[k]) # Num(0)

=============================================================================
